---- MODULE Spec2Model ----
(***************************************************************************)
(* Model of src/output/modifiers.rs: release_all_modifiers and its two     *)
(* helpers release_modifiers_wtype and release_modifiers_ydotool.          *)
(*                                                                         *)
(* Each caller is an async task running release_all_modifiers.  The only   *)
(* suspension points of a call are the two `.output().await` expressions,  *)
(* where the task waits for the child process it has just spawned.  The    *)
(* child processes are the environment: whether the spawn succeeds, what   *)
(* the tool writes to stdout and stderr and how it exits are chosen        *)
(* nondeterministically.                                                   *)
(*                                                                         *)
(* Strings are sequences of tokens; format!() is concatenation and         *)
(* str::contains is membership of a token.                                 *)
(***************************************************************************)
EXTENDS Naturals, Sequences, FiniteSets, TLC

VARIABLES pc, child, attempts, wres, yres, result, calls

vars == <<pc, child, attempts, wres, yres, result, calls>>

(* Bounds of the model *)
MaxCalls == 2

Callers == {"t1", "t2"}

Tools == {"wtype", "ydotool"}

(***************************************************************************)
(* Result<(), String>                                                      *)
(***************************************************************************)
Pending == [tag |-> "Pending", msg |-> <<>>]

Ok == [tag |-> "Ok", msg |-> <<>>]

Err(s) == [tag |-> "Err", msg |-> s]

IsOk(r) == r.tag = "Ok"

IsErr(r) == r.tag = "Err"

Contains(s, tok) == \E i \in DOMAIN s : s[i] = tok

(***************************************************************************)
(* The environment: spawn outcomes, exit statuses, what a tool writes       *)
(***************************************************************************)
SpawnErrors == {"NotFound", "PermissionDenied"}

SpawnOutcomes == {"spawned"} \cup SpawnErrors

\* Display of std::io::Error, the `e` of the map_err closures
IoErrorText(e) ==
    IF e = "NotFound" THEN <<"No such file or directory (os error 2)">>
                      ELSE <<"Permission denied (os error 13)">>

\* ExitStatus: an exit code, or termination by a signal (no code)
ExitStatuses ==
    { [kind |-> "code", n |-> 0], [kind |-> "code", n |-> 1],
      [kind |-> "signal", n |-> 9] }

\* ExitStatus::success
Success(st) == st.kind = "code" /\ st.n = 0

InvalidUtf8 == "\\xFF"

ReplacementChar == "U+FFFD"

\* what a tool may write to its stdout and stderr before it exits (raw bytes)
ToolWrites ==
    { [out |-> <<>>, err |-> <<>>],
      [out |-> <<"done">>, err |-> <<>>],
      [out |-> <<>>, err |-> <<"permission denied", InvalidUtf8>>] }

\* String::from_utf8_lossy
FromUtf8Lossy(bytes) ==
    [i \in DOMAIN bytes |->
        IF bytes[i] = InvalidUtf8 THEN ReplacementChar ELSE bytes[i]]

NoChild == [state |-> "none", status |-> [kind |-> "code", n |-> 0],
            stdout |-> <<>>, stderr |-> <<>>]

(***************************************************************************)
(* The argument lists                                                      *)
(***************************************************************************)
WtypeArgs ==
    <<"-m", "shift", "-m", "ctrl", "-m", "logo", "-m", "alt", "-m", "altgr">>

YdotoolArgs_NoSubcommand ==
    <<"42:0", "54:0", "29:0", "97:0", "56:0", "100:0", "125:0", "126:0">>

YdotoolArgs ==
    <<"key", "42:0", "54:0", "29:0", "97:0", "56:0", "100:0", "125:0", "126:0">>

ArgsOf(tool) == IF tool = "wtype" THEN WtypeArgs ELSE YdotoolArgs

(***************************************************************************)
(* The results of the helpers                                              *)
(***************************************************************************)
\* .map_err(|e| format!("<tool> failed: {}", e))?
SpawnFailure(tool, e) == Err(<<tool, " failed: ">> \o IoErrorText(e))

ExitResult_StderrSensitive(tool, output) ==
    IF Success(output.status) /\ output.stderr = <<>>
    THEN Ok
    ELSE Err(<<tool, " error: ">> \o FromUtf8Lossy(output.stderr))

\* if output.status.success() { Ok(()) } else { Err(format!("<tool> error: {}", stderr)) }
ExitResult(tool, output) ==
    IF Success(output.status)
    THEN Ok
    ELSE Err(<<tool, " error: ">> \o FromUtf8Lossy(output.stderr))

Exhausted_OneName ==
    Err(<<"No tool available to release modifiers (tried ", "wtype", ")">>)

\* Err("No tool available to release modifiers (tried wtype, ydotool)")
Exhausted ==
    Err(<<"No tool available to release modifiers (tried ", "wtype", ", ",
          "ydotool", ")">>)

(***************************************************************************)
(* Initial state: no call has been made                                    *)
(***************************************************************************)
Init ==
    /\ pc = [c \in Callers |-> "idle"]
    /\ child = [c \in Callers |-> [t \in Tools |-> NoChild]]
    /\ attempts = [c \in Callers |-> <<>>]
    /\ wres = [c \in Callers |-> Pending]
    /\ yres = [c \in Callers |-> Pending]
    /\ result = [c \in Callers |-> Pending]
    /\ calls = 0

\* one record of the log of Command invocations of the current call
Attempt(tool, outcome) ==
    [tool |-> tool, args |-> ArgsOf(tool), spawn |-> outcome,
     exited |-> FALSE, status |-> NoChild.status,
     wrote_out |-> <<>>, wrote_err |-> <<>>]

(***************************************************************************)
(* release_all_modifiers is called                                         *)
(***************************************************************************)
Call(c) ==
    /\ pc[c] \in {"idle", "returned"}
    /\ calls < MaxCalls
    /\ calls' = calls + 1
    /\ pc' = [pc EXCEPT ![c] = "wtype_spawn"]
    /\ child' = [child EXCEPT ![c] = [t \in Tools |-> NoChild]]
    /\ attempts' = [attempts EXCEPT ![c] = <<>>]
    /\ wres' = [wres EXCEPT ![c] = Pending]
    /\ yres' = [yres EXCEPT ![c] = Pending]
    /\ result' = [result EXCEPT ![c] = Pending]

(***************************************************************************)
(* The rest of release_all_modifiers once release_modifiers_wtype has      *)
(* returned r                                                              *)
(***************************************************************************)
AfterWtype_FallThrough(c, r) ==
    /\ wres' = [wres EXCEPT ![c] = r]
    /\ pc' = [pc EXCEPT ![c] = "ydotool_spawn"]
    /\ UNCHANGED result

AfterWtype_Propagate(c, r) ==
    /\ wres' = [wres EXCEPT ![c] = r]
    /\ pc' = [pc EXCEPT ![c] = "returned"]
    /\ result' = [result EXCEPT ![c] = r]

AfterWtype(c, r) ==
    /\ wres' = [wres EXCEPT ![c] = r]
    /\ IF IsOk(r)
       THEN /\ pc' = [pc EXCEPT ![c] = "returned"]
            /\ result' = [result EXCEPT ![c] = Ok]
       ELSE /\ pc' = [pc EXCEPT ![c] = "ydotool_spawn"]
            /\ UNCHANGED result

(***************************************************************************)
(* The rest of release_all_modifiers once release_modifiers_ydotool has    *)
(* returned r                                                              *)
(***************************************************************************)
AfterYdotool_IgnoreOk(c, r) ==
    /\ yres' = [yres EXCEPT ![c] = r]
    /\ pc' = [pc EXCEPT ![c] = "returned"]
    /\ result' = [result EXCEPT ![c] = Exhausted]

AfterYdotool_Retry(c, r) ==
    /\ yres' = [yres EXCEPT ![c] = r]
    /\ IF IsOk(r)
       THEN /\ pc' = [pc EXCEPT ![c] = "returned"]
            /\ result' = [result EXCEPT ![c] = Ok]
       ELSE /\ pc' = [pc EXCEPT ![c] = "wtype_spawn"]
            /\ UNCHANGED result

AfterYdotool(c, r) ==
    /\ yres' = [yres EXCEPT ![c] = r]
    /\ pc' = [pc EXCEPT ![c] = "returned"]
    /\ result' = [result EXCEPT ![c] = IF IsOk(r) THEN Ok ELSE Exhausted]

(***************************************************************************)
(* Command::new(tool).args(..).stdout(null).stderr(piped).output()         *)
(***************************************************************************)
SpawnChild(c, tool) ==
    /\ child' = [child EXCEPT ![c][tool] = [NoChild EXCEPT !.state = "running"]]
    /\ attempts' = [attempts EXCEPT ![c] = Append(@, Attempt(tool, "spawned"))]

SpawnFails(c, tool, e) ==
    /\ attempts' = [attempts EXCEPT ![c] = Append(@, Attempt(tool, e))]
    /\ UNCHANGED child

WtypeSpawn_NoAwait(c) ==
    /\ pc[c] = "wtype_spawn"
    /\ \E o \in SpawnOutcomes :
        IF o = "spawned"
        THEN /\ SpawnChild(c, "wtype")
             /\ pc' = [pc EXCEPT ![c] = "ydotool_spawn"]
             /\ wres' = [wres EXCEPT ![c] = Err(<<"wtype", " error: ">>)]
             /\ UNCHANGED result
        ELSE /\ SpawnFails(c, "wtype", o)
             /\ AfterWtype(c, SpawnFailure("wtype", o))
    /\ UNCHANGED <<yres, calls>>

\* release_modifiers_wtype up to its await
WtypeSpawn(c) ==
    /\ pc[c] = "wtype_spawn"
    /\ \E o \in SpawnOutcomes :
        IF o = "spawned"
        THEN /\ SpawnChild(c, "wtype")
             /\ pc' = [pc EXCEPT ![c] = "wtype_wait"]
             /\ UNCHANGED <<wres, result>>
        ELSE /\ SpawnFails(c, "wtype", o)
             /\ AfterWtype(c, SpawnFailure("wtype", o))
    /\ UNCHANGED <<yres, calls>>

WtypeOutput_Timeout(c) ==
    /\ pc[c] = "wtype_wait"
    /\ child[c]["wtype"].state \in {"running", "exited"}
    /\ AfterWtype(c, IF child[c]["wtype"].state = "running"
                     THEN Err(<<"wtype", " timed out">>)
                     ELSE ExitResult("wtype", child[c]["wtype"]))
    /\ UNCHANGED <<child, attempts, yres, calls>>

\* release_modifiers_wtype from its await on: the child has exited
WtypeOutput(c) ==
    /\ pc[c] = "wtype_wait"
    /\ child[c]["wtype"].state = "exited"
    /\ AfterWtype(c, ExitResult("wtype", child[c]["wtype"]))
    /\ UNCHANGED <<child, attempts, yres, calls>>

\* release_modifiers_ydotool up to its await
YdotoolSpawn(c) ==
    /\ pc[c] = "ydotool_spawn"
    /\ \E o \in SpawnOutcomes :
        IF o = "spawned"
        THEN /\ SpawnChild(c, "ydotool")
             /\ pc' = [pc EXCEPT ![c] = "ydotool_wait"]
             /\ UNCHANGED <<yres, result>>
        ELSE /\ SpawnFails(c, "ydotool", o)
             /\ AfterYdotool(c, SpawnFailure("ydotool", o))
    /\ UNCHANGED <<wres, calls>>

\* release_modifiers_ydotool from its await on: the child has exited
YdotoolOutput(c) ==
    /\ pc[c] = "ydotool_wait"
    /\ child[c]["ydotool"].state = "exited"
    /\ AfterYdotool(c, ExitResult("ydotool", child[c]["ydotool"]))
    /\ UNCHANGED <<child, attempts, wres, calls>>

(***************************************************************************)
(* The environment: a running child process exits.  Its stdout goes to     *)
(* Stdio::null(), its stderr to the pipe that output() collects.           *)
(***************************************************************************)
ToolExit(c, tool) ==
    /\ child[c][tool].state = "running"
    /\ \E st \in ExitStatuses, w \in ToolWrites :
        /\ child' = [child EXCEPT ![c][tool] =
                        [state |-> "exited", status |-> st,
                         stdout |-> <<>>, stderr |-> w.err]]
        /\ attempts' = [attempts EXCEPT ![c] =
                [i \in DOMAIN @ |->
                    IF @[i].tool = tool /\ @[i].spawn = "spawned" /\ ~@[i].exited
                    THEN [@[i] EXCEPT !.exited = TRUE, !.status = st,
                                      !.wrote_out = w.out, !.wrote_err = w.err]
                    ELSE @[i]]]
    /\ UNCHANGED <<pc, wres, yres, result, calls>>

Next ==
    \E c \in Callers :
        \/ Call(c)
        \/ WtypeSpawn(c)
        \/ WtypeOutput(c)
        \/ YdotoolSpawn(c)
        \/ YdotoolOutput(c)
        \/ \E tool \in Tools : ToolExit(c, tool)

Spec == Init /\ [][Next]_vars

\* the async runtime keeps polling a task that can make progress; whether a
\* child process ever exits is up to the tool
Progress(c) ==
    WtypeSpawn(c) \/ WtypeOutput(c) \/ YdotoolSpawn(c) \/ YdotoolOutput(c)

FairSpec == Spec /\ \A c \in Callers : WF_vars(Progress(c))

(***************************************************************************)
(* Vocabulary of the properties: what the log of a call shows              *)
(***************************************************************************)
Idx(c, tool) == {i \in DOMAIN attempts[c] : attempts[c][i].tool = tool}

Invoked(c, tool) == Idx(c, tool) # {}

\* the tool's process started, ran to completion and exited with success
ToolSucceeded(c, tool) ==
    \E i \in Idx(c, tool) :
        /\ attempts[c][i].spawn = "spawned"
        /\ attempts[c][i].exited
        /\ attempts[c][i].status = [kind |-> "code", n |-> 0]

\* the tool could not be started, or it exited with a non-success status
ToolFailed(c, tool) ==
    \E i \in Idx(c, tool) :
        \/ attempts[c][i].spawn # "spawned"
        \/ /\ attempts[c][i].exited
           /\ attempts[c][i].status # [kind |-> "code", n |-> 0]

Running(c, tool) == child[c][tool].state = "running"

AnyRunning(c) == \E tool \in Tools : Running(c, tool)

InCall(c) == pc[c] \notin {"idle", "returned"}

Returned(c) == pc[c] = "returned"

\* C1: whenever wtype was spawned, ran to completion and exited with
\* success, ydotool has not been invoked in that call, the call does nothing
\* but return, and what it returns is Ok(()).
C1_WtypeSuccessReturnsOk ==
    \A c \in Callers :
        ToolSucceeded(c, "wtype") =>
            /\ ~Invoked(c, "ydotool")
            /\ pc[c] \in {"wtype_wait", "returned"}
            /\ Returned(c) => result[c] = [tag |-> "Ok", msg |-> <<>>]

C1_Witness ==
    \E c \in Callers :
        /\ Returned(c)
        /\ ToolSucceeded(c, "wtype")
        /\ result[c].tag = "Ok"

\* C2: a call that has returned after wtype failed (spawn error of either
\* kind, or non-success exit) and ydotool exited with success returned Ok(()).
C2_FallbackSuccessReturnsOk ==
    \A c \in Callers :
        (Returned(c) /\ ToolFailed(c, "wtype") /\ ToolSucceeded(c, "ydotool"))
            => result[c] = [tag |-> "Ok", msg |-> <<>>]

C2_Witness ==
    \E c \in Callers :
        /\ Returned(c)
        /\ attempts[c][1].tool = "wtype"
        /\ attempts[c][1].spawn = "NotFound"
        /\ ToolSucceeded(c, "ydotool")

\* C3: a call that has returned after both tools failed returned an error
\* whose text contains both "wtype" and "ydotool".
C3_BothFailReturnsErrNamingBoth ==
    \A c \in Callers :
        (Returned(c) /\ ToolFailed(c, "wtype") /\ ToolFailed(c, "ydotool"))
            => /\ result[c].tag = "Err"
               /\ Contains(result[c].msg, "wtype")
               /\ Contains(result[c].msg, "ydotool")

C3_Witness ==
    \E c \in Callers :
        /\ Returned(c)
        /\ Len(attempts[c]) = 2
        /\ attempts[c][1].spawn = "spawned"
        /\ attempts[c][1].status = [kind |-> "code", n |-> 1]
        /\ attempts[c][2].spawn = "NotFound"
        /\ result[c].tag = "Err"

\* C4: every invocation of wtype passes exactly -m shift -m ctrl -m logo
\* -m alt -m altgr and every invocation of ydotool exactly key 42:0 54:0
\* 29:0 97:0 56:0 100:0 125:0 126:0, whatever happened before.
C4_ExactArguments ==
    \A c \in Callers : \A i \in DOMAIN attempts[c] :
        /\ attempts[c][i].tool \in {"wtype", "ydotool"}
        /\ attempts[c][i].tool = "wtype" =>
             attempts[c][i].args =
               <<"-m", "shift", "-m", "ctrl", "-m", "logo", "-m", "alt",
                 "-m", "altgr">>
        /\ attempts[c][i].tool = "ydotool" =>
             attempts[c][i].args =
               <<"key", "42:0", "54:0", "29:0", "97:0", "56:0", "100:0",
                 "125:0", "126:0">>

\* a later call, made after an earlier one, has invoked both tools
C4_Witness ==
    \E c \in Callers :
        /\ calls >= 2
        /\ Invoked(c, "wtype")
        /\ Invoked(c, "ydotool")
        /\ ToolFailed(c, "wtype")

\* C5: once the wtype attempt has failed, the call can only go on to
\* ydotool: it has not returned before ydotool was attempted.
C5_WtypeFailureFallsBack ==
    \A c \in Callers :
        ToolFailed(c, "wtype") =>
            /\ pc[c] \in {"wtype_wait", "ydotool_spawn", "ydotool_wait", "returned"}
            /\ pc[c] = "ydotool_spawn" => result[c].tag = "Pending"
            /\ pc[c] \in {"ydotool_wait", "returned"} => Invoked(c, "ydotool")

\* wtype exits 1 with "permission denied" on stderr, and ydotool is attempted
C5_Witness ==
    \E c \in Callers :
        /\ Len(attempts[c]) = 2
        /\ attempts[c][1].tool = "wtype"
        /\ attempts[c][1].status = [kind |-> "code", n |-> 1]
        /\ attempts[c][1].wrote_err # <<>>
        /\ attempts[c][2].tool = "ydotool"

\* C6: the error returned to the caller of release_all_modifiers includes
\* the captured stderr text of every tool that exited with a non-success
\* status, and the io error text of every tool that could not be started.
C6_ErrorCarriesToolDiagnostics ==
    \A c \in Callers :
        (Returned(c) /\ result[c].tag = "Err") =>
            \A i \in DOMAIN attempts[c] :
                /\ (attempts[c][i].exited /\ ~Success(attempts[c][i].status)) =>
                     \A k \in DOMAIN attempts[c][i].wrote_err :
                        Contains(result[c].msg,
                                 FromUtf8Lossy(attempts[c][i].wrote_err)[k])
                /\ attempts[c][i].spawn # "spawned" =>
                     \A k \in DOMAIN IoErrorText(attempts[c][i].spawn) :
                        Contains(result[c].msg,
                                 IoErrorText(attempts[c][i].spawn)[k])

\* two calls whose tools had the same spawn outcomes and exit statuses
SameOutcomes(c, d) ==
    /\ Len(attempts[c]) = Len(attempts[d])
    /\ \A i \in DOMAIN attempts[c] :
        /\ attempts[c][i].tool = attempts[d][i].tool
        /\ attempts[c][i].spawn = attempts[d][i].spawn
        /\ attempts[c][i].exited = attempts[d][i].exited
        /\ attempts[c][i].status = attempts[d][i].status

\* C7: an attempt counts as a success exactly when its process started and
\* exited with success, and two calls with the same spawn outcomes and exit
\* statuses return the same result whatever the tools wrote.
C7_ResultDependsOnStatusOnly ==
    /\ \A c \in Callers :
        /\ wres[c].tag # "Pending" =>
             (wres[c].tag = "Ok" <=> ToolSucceeded(c, "wtype"))
        /\ yres[c].tag # "Pending" =>
             (yres[c].tag = "Ok" <=> ToolSucceeded(c, "ydotool"))
    /\ \A c, d \in Callers :
        (Returned(c) /\ Returned(d) /\ SameOutcomes(c, d))
            => result[c] = result[d]

\* two calls with the same outcomes, one of them with a tool that exited 0
\* after writing to stderr, the other with a silent tool
C7_Witness ==
    \E c, d \in Callers :
        /\ Returned(c) /\ Returned(d) /\ SameOutcomes(c, d)
        /\ Len(attempts[c]) = 2
        /\ ToolSucceeded(c, "ydotool")
        /\ attempts[c][2].wrote_err # <<>>
        /\ attempts[d][2].wrote_err = <<>>
        /\ attempts[c][1].wrote_out # attempts[d][1].wrote_out

\* C8: the ydotool process is never started while the wtype process of the
\* same call is running, so at most one child of a call runs at a time.
C8_AttemptsSequential ==
    \A c \in Callers :
        /\ ~(Running(c, "wtype") /\ Running(c, "ydotool"))
        /\ Invoked(c, "ydotool") =>
             /\ child[c]["wtype"].state # "running"
             /\ ToolFailed(c, "wtype")
        /\ Cardinality({t \in Tools : Running(c, t)}) <= 1

C8_Witness ==
    \E c \in Callers :
        /\ Running(c, "ydotool")
        /\ child[c]["wtype"].state = "exited"

\* C9: in a call wtype is invoked exactly once and ydotool at most once, and
\* once ydotool has failed the call has returned an error.
C9_NoRetries ==
    \A c \in Callers :
        /\ Cardinality(Idx(c, "wtype")) =
             (IF pc[c] \in {"idle", "wtype_spawn"} THEN 0 ELSE 1)
        /\ Cardinality(Idx(c, "ydotool")) <= 1
        /\ Len(attempts[c]) <= 2
        /\ yres[c].tag = "Err" => (Returned(c) /\ result[c].tag = "Err")

C9_Witness ==
    \E c \in Callers :
        /\ Returned(c)
        /\ result[c].tag = "Err"
        /\ Cardinality(Idx(c, "wtype")) = 1
        /\ Cardinality(Idx(c, "ydotool")) = 1

\* C10: if the child processes of a call always exit in the end, a call that
\* has started returns; and while the wtype process runs, the call has not
\* returned and ydotool has not been invoked.
C10_ReturnsIfChildrenExit ==
    /\ \A c \in Callers :
        ([]<>(~AnyRunning(c))) => (InCall(c) ~> Returned(c))
    /\ [](\A c \in Callers :
            Running(c, "wtype") =>
                /\ pc[c] = "wtype_wait"
                /\ result[c].tag = "Pending"
                /\ ~Invoked(c, "ydotool"))

\* one call returned after both of its children exited, another is blocked
\* on a wtype process that is still running
C10_Witness ==
    \E c, d \in Callers :
        /\ Returned(c)
        /\ child[c]["wtype"].state = "exited"
        /\ child[c]["ydotool"].state = "exited"
        /\ Running(d, "wtype")
        /\ pc[d] = "wtype_wait"

====
